---- MODULE Spec2Model ----
(***************************************************************************)
(* Model of the Gemini service client of cpp-helper:                       *)
(*   generateContentWithRetry, validateApiKey, generateQuestion,           *)
(*   evaluateAnswer, isValidApiKeyFormat and stripComments.                *)
(* Two revisions of the service module exist in the repository:            *)
(*   "early"  = src/services/geminiService.ts (no credential format check) *)
(*   "strict" = src/unnamed/part_000          (credential format check)    *)
(* Strings that the code inspects (error messages, credentials, code       *)
(* snippets) are sequences of one-character strings.                       *)
(***************************************************************************)
EXTENDS Integers, Sequences, FiniteSets, TLC

(***************************************************************************)
(* Bounds of the model.                                                    *)
(***************************************************************************)
\* largest retry count a direct caller of the wrapper passes
MaxRetries == 3
\* largest non-default initial delay (ms) a direct caller passes
MaxSmallDelay == 2

(***************************************************************************)
(* Program constants.                                                      *)
(***************************************************************************)
\* default of the parameter `retries`
DefaultRetries == 3
\* default of the parameter `delay` (ms)
DefaultDelay == 2000
\* apiKeyRegex: {30,40}
KeyBodyMin == 30
KeyBodyMax == 40
\* error.status values the wrapper tests for
StatusRateLimit == 429
StatusOverload == 503

Revisions == {"early", "strict"}

(***************************************************************************)
(* String helpers: String.prototype.includes, repetition.                  *)
(***************************************************************************)
\* s.includes(sub)
Includes(s, sub) ==
  \E i \in 0..(Len(s) - Len(sub)) :
     \A j \in 1..Len(sub) : s[i + j] = sub[j]

Rep(c, n) == [i \in 1..n |-> c]

Sub429 == <<"4", "2", "9">>
Sub503 == <<"5", "0", "3">>
SubExhausted == <<"R", "e", "s", "o", "u", "r", "c", "e", " ", "h", "a", "s", " ", "b", "e", "e", "n", " ", "e", "x", "h", "a", "u", "s", "t", "e", "d">>

(***************************************************************************)
(* Errors.  An error object has an optional numeric status (0 = absent),   *)
(* an optional message, and `cause`, the kind of failure that really       *)
(* happened (known to the environment, not to the code).  `n` is the       *)
(* attempt that raised it (object identity; 0 = raised by the client).     *)
(***************************************************************************)
Msg429 == <<"4", "2", "9", " ", "T", "o", "o", " ", "M", "a", "n", "y", " ", "R", "e", "q", "u", "e", "s", "t", "s">>
Msg503 == <<"5", "0", "3", " ", "S", "e", "r", "v", "i", "c", "e", " ", "U", "n", "a", "v", "a", "i", "l", "a", "b", "l", "e">>
MsgKeyNotValid == <<"A", "P", "I", " ", "k", "e", "y", " ", "n", "o", "t", " ", "v", "a", "l", "i", "d">>
MsgFetchFailed == <<"f", "e", "t", "c", "h", " ", "f", "a", "i", "l", "e", "d">>
MsgAuthTrace == <<"A", "P", "I", " ", "k", "e", "y", " ", "n", "o", "t", " ", "v", "a", "l", "i", "d", " ", "(", "t", "r", "a", "c", "e", " ", "1", "4", "2", "9", "0", ")">>
MsgNetPort == <<"c", "o", "n", "n", "e", "c", "t", " ", "E", "C", "O", "N", "N", "R", "E", "F", "U", "S", "E", "D", " ", "1", "0", ".", "0", ".", "0", ".", "1", ":", "5", "0", "3", "0">>
MsgKeyMissing == <<"A", "P", "I", " ", "K", "e", "y", " ", "i", "s", " ", "m", "i", "s", "s", "i", "n", "g">>
MsgKeyFormat == <<"A", "P", "I", " ", "K", "e", "y", " ", "f", "o", "r", "m", "a", "t", " ", "i", "s", " ", "i", "n", "v", "a", "l", "i", "d", " ", "(", "M", "u", "s", "t", " ", "s", "t", "a", "r", "t", " ", "w", "i", "t", "h", " ", "'", "A", "I", "z", "a", "'", ")">>
MsgNoResponse == <<"N", "o", " ", "r", "e", "s", "p", "o", "n", "s", "e", " ", "f", "r", "o", "m", " ", "G", "e", "m", "i", "n", "i">>
MsgNoText == <<"N", "o", " ", "t", "e", "x", "t", " ", "r", "e", "t", "u", "r", "n", "e", "d", " ", "f", "r", "o", "m", " ", "G", "e", "m", "i", "n", "i", " ", "A", "P", "I">>

MkError(cause, status, hasMsg, msg) ==
  [cause |-> cause, status |-> status, hasMsg |-> hasMsg, msg |-> msg, n |-> 0]

\* failures the remote call can produce
RemoteErrors ==
  { MkError("rateLimit", 429, FALSE, <<>>),
    MkError("rateLimit", 0, TRUE, Msg429),
    MkError("rateLimit", 0, TRUE, SubExhausted),
    MkError("overload", 503, TRUE, Msg503),
    MkError("auth", 400, TRUE, MsgKeyNotValid),
    MkError("auth", 401, TRUE, MsgAuthTrace),
    MkError("network", 0, TRUE, MsgFetchFailed),
    MkError("network", 0, TRUE, MsgNetPort) }

\* what the failure really is: a rate-limit or an overload signal
IsTransientCause(e) == e.cause \in {"rateLimit", "overload"}

\* the error raised by attempt number n
Raised(e, n) == [e EXCEPT !.n = n]

\* error.message?.includes(sub)
MessageIncludes(e, sub) == e.hasMsg /\ Includes(e.msg, sub)

isRateLimit(e) ==
  \/ MessageIncludes(e, Sub429)
  \/ e.status = StatusRateLimit
  \/ MessageIncludes(e, SubExhausted)

isServerOverload(e) ==
  \/ MessageIncludes(e, Sub503)
  \/ e.status = StatusOverload

\* variant: the guard lets a frame with no retries left retry once more
ShouldRetryOffByOne(r, e) == r >= 0 /\ (isRateLimit(e) \/ isServerOverload(e))

\* variant: the guard does not classify the failure
ShouldRetryAnyError(r, e) == r > 0

\* the condition of the retry branch of the catch block
ShouldRetry(r, e) == r > 0 /\ (isRateLimit(e) \/ isServerOverload(e))

(***************************************************************************)
(* Credentials and isValidApiKeyFormat: /^AIza[0-9A-Za-z-_]{30,40}$/       *)
(***************************************************************************)
KeyPrefix == <<"A", "I", "z", "a">>
KeyChars == {"0", "1", "2", "3", "4", "5", "6", "7", "8", "9", "A", "B", "C", "D", "E", "F", "G", "H", "I", "J", "K", "L", "M", "N", "O", "P", "Q", "R", "S", "T", "U", "V", "W", "X", "Y", "Z", "a", "b", "c", "d", "e", "f", "g", "h", "i", "j", "k", "l", "m", "n", "o", "p", "q", "r", "s", "t", "u", "v", "w", "x", "y", "z", "-", "_"}

isValidApiKeyFormat(key) ==
  /\ Len(key) >= Len(KeyPrefix) + KeyBodyMin
  /\ Len(key) <= Len(KeyPrefix) + KeyBodyMax
  /\ \A i \in 1..Len(KeyPrefix) : key[i] = KeyPrefix[i]
  /\ \A i \in (Len(KeyPrefix) + 1)..Len(key) : key[i] \in KeyChars

\* credentials a caller passes: empty, well-formed at both ends of the
\* length range, and malformed in each way the pattern can fail
Keys ==
  { <<>>,
    KeyPrefix \o Rep("a", KeyBodyMin),
    KeyPrefix \o Rep("_", KeyBodyMax),
    KeyPrefix \o Rep("a", KeyBodyMin - 1),
    KeyPrefix \o Rep("a", KeyBodyMax + 1),
    <<"B", "I", "z", "a">> \o Rep("a", KeyBodyMin),
    KeyPrefix \o Rep("a", KeyBodyMin - 1) \o <<"!">>,
    <<"k", "e", "y">> }

\* !apiKey
KeyIsEmpty(key) == key = <<>>

(***************************************************************************)
(* stripComments:                                                          *)
(*   code.replace(/\/\*[\s\S]*?\*\//g, "")                                 *)
(*       .replace(/\/\/.*$/gm, "")                                         *)
(*       .replace(/^\s*[\r\n]/gm, "")                                      *)
(***************************************************************************)
\* A character outside ASCII, and U+000B, is written "uXXXX".
\* the characters that "." does not match and at which ^ and $ match under
\* the m flag
LineTerminators == {"\n", "\r", "u2028", "u2029"}
\* [\r\n]
LineBreaks == {"\n", "\r"}
\* \s, which is also the white space of String.prototype.trim
WhiteSpace ==
  {" ", "\t", "\n", "\r", "\f", "u000B", "u00A0", "u1680", "u2000", "u2001",
   "u2002", "u2003", "u2004", "u2005", "u2006", "u2007", "u2008", "u2009",
   "u200A", "u2028", "u2029", "u202F", "u205F", "u3000", "uFEFF"}

SetMin(S) == CHOOSE x \in S : \A y \in S : x <= y
SetMax(S) == CHOOSE x \in S : \A y \in S : x >= y

\* the two characters at i, i+1 are a, b
At2(s, i, a, b) == i + 1 <= Len(s) /\ s[i] = a /\ s[i + 1] = b

\* positions j >= i+2 at which the first closing "*/" of a block may start
BlockClosers(s, i) == {j \in (i + 2)..(Len(s) - 1) : At2(s, j, "*", "/")}

RECURSIVE StripBlockFrom(_, _)
StripBlockFrom(s, i) ==
  IF i > Len(s) THEN <<>>
  ELSE IF At2(s, i, "/", "*") /\ BlockClosers(s, i) # {}
       THEN StripBlockFrom(s, SetMin(BlockClosers(s, i)) + 2)
       ELSE <<s[i]>> \o StripBlockFrom(s, i + 1)

\* first position >= i holding a line terminator, or Len(s)+1
LineEnd(s, i) ==
  LET T == {k \in i..Len(s) : s[k] \in LineTerminators}
  IN IF T = {} THEN Len(s) + 1 ELSE SetMin(T)

RECURSIVE StripLineFrom(_, _)
StripLineFrom(s, i) ==
  IF i > Len(s) THEN <<>>
  ELSE IF At2(s, i, "/", "/")
       THEN StripLineFrom(s, LineEnd(s, i + 2))
       ELSE <<s[i]>> \o StripLineFrom(s, i + 1)

\* ^ with the m flag
LineStart(s, i) == i = 1 \/ s[i - 1] \in LineTerminators

\* end of the maximal run of \s starting at i (i-1 when s[i] is not \s)
SpaceRunEnd(s, i) ==
  LET N == {k \in i..Len(s) : s[k] \notin WhiteSpace}
  IN IF N = {} THEN Len(s) ELSE SetMin(N) - 1

\* the positions of [\r\n] inside the run of \s starting at i
RunTerminators(s, i) ==
  {k \in i..SpaceRunEnd(s, i) : s[k] \in LineBreaks}

RECURSIVE StripBlankFrom(_, _)
StripBlankFrom(s, i) ==
  IF i > Len(s) THEN <<>>
  ELSE IF LineStart(s, i) /\ RunTerminators(s, i) # {}
       THEN StripBlankFrom(s, SetMax(RunTerminators(s, i)) + 1)
       ELSE <<s[i]>> \o StripBlankFrom(s, i + 1)

StripBlock(s) == StripBlockFrom(s, 1)
StripLine(s) == StripLineFrom(s, 1)
StripBlank(s) == StripBlankFrom(s, 1)

stripComments(code) == StripBlank(StripLine(StripBlock(code)))

(***************************************************************************)
(* Remote responses.  response.text is undefined, "", text that is not     *)
(* JSON, or the JSON encoding of a value; JSON values are null, a number   *)
(* or an object (a record over the fields that are present).               *)
(***************************************************************************)
QuestionFields == {"code", "questionText", "type", "topic", "difficulty"}
EvaluationFields == {"isCorrect", "feedback", "correctAnswerDetail"}

NoValue == [t |-> "none"]
JsonNull == [t |-> "null"]
JsonNumber == [t |-> "number"]
JsonObject(o) == [t |-> "object", o |-> o]
Boolean(b) == [t |-> "boolean", b |-> b]

HasField(v, f) == v.t = "object" /\ f \in DOMAIN v.o
Restrict(o, F) == [f \in F |-> o[f]]

\* code snippets the remote model emits
CodePlain == <<"a", ";">>
CodeLineComment == <<"a", ";", "/", "/", "h", "\n", "b", ";">>
CodeBlockComment == <<"a", ";", "\n", "/", "*", "x", "\n", "y", "*", "/", "\n", "b", ";">>
\* a block comment whose removal joins "/" and "*h*/"
CodeJoinedComment == <<"/", "/", "*", "*", "/", "*", "h", "*", "/">>
Codes == {<<>>, CodePlain, CodeLineComment, CodeBlockComment, CodeJoinedComment}

FullQuestion(code) ==
  [code |-> code, questionText |-> "Q", type |-> "validity",
   topic |-> "T", difficulty |-> "Beginner"]

FullEvaluation(b) ==
  [isCorrect |-> b, feedback |-> "F", correctAnswerDetail |-> "D"]

\* a complete object, every object that lacks exactly one field, and {}
QuestionObjects ==
  UNION { {FullQuestion(c), Restrict(FullQuestion(c), {})}
          \cup {Restrict(FullQuestion(c), QuestionFields \ {f}) : f \in QuestionFields}
          : c \in Codes }

EvaluationObjects ==
  UNION { {FullEvaluation(b), Restrict(FullEvaluation(b), {})}
          \cup {Restrict(FullEvaluation(b), EvaluationFields \ {f}) : f \in EvaluationFields}
          : b \in BOOLEAN }

TextUndefined == [k |-> "undefined", v |-> NoValue]
TextEmpty == [k |-> "empty", v |-> NoValue]
\* text that is not JSON, s being its characters
TextNotJson(s) == [k |-> "garbage", v |-> [t |-> "text", s |-> s]]
\* texts that are not JSON and whose first character is the one JSON.parse
\* stops at
NotJsonTexts ==
  { <<"<", "h", "t", "m", "l", ">">>,
    <<"e", "r", "r", "o", "r", " ", "4", "0", "0">>,
    <<"x", "4", "2", "9">> }
TextJson(v) == [k |-> "json", v |-> v]

TextsOf(objects) ==
  {TextUndefined, TextEmpty, TextJson(JsonNull), TextJson(JsonNumber)}
  \cup {TextNotJson(s) : s \in NotJsonTexts}
  \cup {TextJson(JsonObject(o)) : o \in objects}

\* the texts the remote service can answer an operation with
Texts(o) ==
  IF o = "generateQuestion" THEN TextsOf(QuestionObjects)
  ELSE IF o = "evaluateAnswer" THEN TextsOf(EvaluationObjects)
  ELSE {TextUndefined, TextJson(JsonObject(FullQuestion(CodePlain)))}

Response(text) == [t |-> "response", text |-> text]

\* !text
TextFalsy(text) == text.k \in {"undefined", "empty"}

(***************************************************************************)
(* Outcomes of an operation.                                               *)
(***************************************************************************)
NoError == MkError("none", 0, FALSE, <<>>)
NoResult == [kind |-> "none", value |-> NoValue, error |-> NoError]
Return(v) == [kind |-> "return", value |-> v, error |-> NoError]
Throw(e) == [kind |-> "throw", value |-> NoValue, error |-> e]

\* JSON.parse of text that is not JSON: the message quotes the character
\* at which the parse stops and the text (the wording is that of V8);
\* a property read on null or a method call on undefined
SyntaxError(text) ==
  MkError("SyntaxError", 0, TRUE,
          <<"U", "n", "e", "x", "p", "e", "c", "t", "e", "d", " ", "t", "o", "k", "e", "n", " ", "'">> \o <<text.v.s[1]>>
          \o <<"'", ",", " ", "\"">> \o text.v.s
          \o <<"\"", " ", "i", "s", " ", "n", "o", "t", " ", "v", "a", "l", "i", "d", " ", "J", "S", "O", "N">>)
TypeError == MkError("TypeError", 0, TRUE, <<>>)

\* new Error("API Key is missing")
MissingCredential == MkError("MissingCredential", 0, TRUE, MsgKeyMissing)
\* new Error("API Key format is invalid (Must start with 'AIza')")
InvalidCredentialFormat == MkError("InvalidCredentialFormat", 0, TRUE, MsgKeyFormat)
\* new Error("No response from Gemini") / new Error("No text returned from Gemini API")
EmptyResponse(rv) ==
  MkError("EmptyResponse", 0, TRUE, IF rv = "early" THEN MsgNoResponse ELSE MsgNoText)

\* generateQuestion from `const text = response.text` to its return
ParseQuestion(rv, text) ==
  IF TextFalsy(text) THEN Throw(EmptyResponse(rv))
  ELSE IF text.k = "garbage" THEN Throw(SyntaxError(text))
  ELSE IF text.v.t = "null" THEN Throw(TypeError)
  ELSE IF rv = "early"
       THEN IF HasField(text.v, "code")
            THEN Return(JsonObject([text.v.o EXCEPT !.code = stripComments(@)]))
            ELSE Throw(TypeError)
       ELSE IF HasField(text.v, "code") /\ text.v.o.code # <<>>
            THEN Return(JsonObject([text.v.o EXCEPT !.code = stripComments(@)]))
            ELSE Return(text.v)

\* evaluateAnswer from `const text = response.text` to its return
ParseEvaluation(rv, text) ==
  IF TextFalsy(text) THEN Throw(EmptyResponse(rv))
  ELSE IF text.k = "garbage" THEN Throw(SyntaxError(text))
  ELSE Return(text.v)

\* variant: the empty-credential check is missing
CredentialErrorNoEmptyCheck(rv, o, key) ==
  IF rv = "strict" /\ o = "generateQuestion" /\ ~isValidApiKeyFormat(key)
  THEN InvalidCredentialFormat
  ELSE NoError

\* the credential checks at the head of each operation: the error thrown,
\* or NoError when the operation goes on to the remote call
CredentialError(rv, o, key) ==
  IF KeyIsEmpty(key) THEN MissingCredential
  ELSE IF rv = "strict" /\ o = "generateQuestion" /\ ~isValidApiKeyFormat(key)
       THEN InvalidCredentialFormat
       ELSE NoError

\* variant: the format check is missing from the stricter revision
ValidatorAcceptsAnyFormat(rv, key) == ~KeyIsEmpty(key)

\* the local checks of validateApiKey: TRUE when it goes on to the remote call
ValidatorAccepts(rv, key) ==
  /\ ~KeyIsEmpty(key)
  /\ rv = "strict" => isValidApiKeyFormat(key)

(***************************************************************************)
(* State.  One service operation runs at a time; it is suspended either on *)
(* the remote call (pc = "call") or on the backoff timer (pc = "wait").    *)
(***************************************************************************)
VARIABLES
  rev,         \* revision of the service module in use
  op,          \* the operation invoked most recently
  pc,          \* "idle" | "call" | "wait"
  apiKey,      \* the credential argument
  retries,     \* parameter `retries` of the current wrapper frame
  delay,       \* parameter `delay` of the current wrapper frame
  maxRetries,  \* `retries` of the outermost wrapper frame
  initDelay,   \* `delay` of the outermost wrapper frame
  frames,      \* errors caught by the suspended wrapper frames, outermost first
  attempts,    \* calls of model.generateContent made by the wrapper
  netCalls,    \* remote calls of any kind made by the operation
  waits,       \* the delays slept so far, in order
  last,        \* what the remote service answered to the most recent call
  result       \* outcome of the operation

serviceVars == <<rev, op, pc, apiKey, retries, delay, maxRetries, initDelay,
                 frames, attempts, netCalls, waits, last, result>>

\* stripComments applied to a snippet, and again to its own output
VARIABLES
  snippet,     \* the code text handed to stripComments
  passes       \* outputs of the successive applications, first to last

stripVars == <<snippet, passes>>

\* state of the App component (src/App.tsx) and of its environment
VARIABLES
  mode,            \* AppMode: "MENU" | "PRACTICE" | "REVIEW"
  showSettings,    \* the settings modal is open
  mistakes,        \* useState<SavedMistake[]>: the in-memory collection
  stored,          \* localStorage item 'cpp_mistakes'
  currentQuestion, \* useState<CppQuestion | null>
  userAnswer,      \* text of the answer field
  evaluation,      \* useState<EvaluationResult | null>
  isLoading,       \* a question is being fetched
  isEvaluating,    \* an answer is being evaluated
  error,           \* useState<string | null>
  fetching,        \* generateQuestion calls in flight
  evalCall,        \* the evaluateAnswer call in flight, with the closure of
                   \* the render in which handleSubmit was invoked
  exported,        \* the file written by the last export, with the collection
                   \* it was written from
  reads,           \* the files handed to a FileReader whose onload has not
                   \* fired yet, in the order of their selection
  now,             \* the last reading of Date.now()
  lastStoreOp      \* history: the operation on the mistake store, or the
                   \* completion of a remote call, that the last step
                   \* performed, with the store as it was before

appVars == <<mode, showSettings, mistakes, stored, currentQuestion, userAnswer,
             evaluation, isLoading, isEvaluating, error, fetching, evalCall,
             exported, reads, now, lastStoreOp>>

\* the credential of the settings modal and its validation (src/App.tsx)
VARIABLES
  apiKeyField,     \* useState apiKey: the credential held in the settings field
  isKeyValid,      \* "null" (not checked) | "true" | "false"
  isCheckingKey,   \* a validation is being awaited
  keyCall,         \* the validateApiKey call in flight, with the apiKey of the
                   \* render in which handleTestKey was invoked
  storedKey,       \* localStorage item 'gemini_api_key' (empty: none)
  validatedKey     \* history: the credential of the last validation call that
                   \* returned true

keyVars == <<apiKeyField, isKeyValid, isCheckingKey, keyCall, storedKey,
             validatedKey>>

otherVars == <<stripVars, appVars, keyVars>>

vars == <<serviceVars, otherVars>>

\* no snippet is being stripped
StripIdle == snippet = <<>> /\ passes = <<>>

NoAnswer == [ok |-> FALSE, text |-> TextUndefined, error |-> NoError]
Answered(text) == [ok |-> TRUE, text |-> text, error |-> NoError]
Failed(e) == [ok |-> FALSE, text |-> TextUndefined, error |-> e]

WrapperOps == {"generateContentWithRetry", "generateQuestion", "evaluateAnswer"}

\* initial delays a direct caller of the wrapper passes
Delays == (0..MaxSmallDelay) \cup {DefaultDelay}

(***************************************************************************)
(* Values of the App state.                                                *)
(***************************************************************************)
\* null (currentQuestion, evaluation) and undefined (a field that is read
\* from an object that lacks it)
Null == [t |-> "null"]
Undefined == [t |-> "undefined"]
JsonString(x) == [t |-> "string", s |-> x]

\* localStorage.getItem returns null: the item was never written
Absent == [present |-> FALSE, v |-> <<>>]
Item(v) == [present |-> TRUE, v |-> v]

\* no evaluateAnswer call is in flight
NoCall == [active |-> FALSE, question |-> Null, answer |-> <<>>, mistakes |-> <<>>]

\* no evaluateAnswer call has settled yet

\* error is null
NoMessage == "null"
NoStoreOp == [op |-> "none"]

\* history: the store operation name acts with argument arg
StoreOp(name, arg) == [op |-> name, arg |-> arg]

\* history: a generateQuestion call settles with outcome out
FetchOp(out) ==
  [op |-> "fetch", outcome |-> out,
   before |-> mistakes, beforeStored |-> stored]

\* history: an evaluateAnswer call settles with outcome out, the store being
\* as it is now
SubmitOpOf(out, question, answer) ==
  [op |-> "submit", outcome |-> out,
   question |-> question, answer |-> answer,
   before |-> mistakes, beforeStored |-> stored]

SubmitOp(out) == SubmitOpOf(out, evalCall.question, evalCall.answer)

\* the App component after mount, with a saved credential and no item
\* 'cpp_mistakes' in localStorage
NoKeyCall == [active |-> FALSE, key |-> <<>>]

\* the credential a returning user has saved
SavedKey == KeyPrefix \o Rep("a", KeyBodyMin)

\* a returning user: the mount effect has loaded the saved credential, no
\* validation was requested
KeyIdle ==
  /\ apiKeyField = SavedKey
  /\ isKeyValid = "null"
  /\ isCheckingKey = FALSE
  /\ keyCall = NoKeyCall
  /\ storedKey = SavedKey
  /\ validatedKey = Absent

AppIdle ==
  /\ mode = "MENU"
  /\ showSettings = FALSE
  /\ mistakes = <<>>
  /\ stored = Absent
  /\ currentQuestion = Null
  /\ userAnswer = <<>>
  /\ evaluation = Null
  /\ isLoading = FALSE
  /\ isEvaluating = FALSE
  /\ error = NoMessage
  /\ fetching = 0
  /\ evalCall = NoCall
  /\ exported = Absent
  /\ reads = <<>>
  /\ now = 1
  /\ lastStoreOp = NoStoreOp

\* no service operation has been invoked yet
ServiceIdle ==
  /\ op = "none"
  /\ pc = "idle"
  /\ apiKey = <<>>
  /\ retries = 0
  /\ delay = 0
  /\ maxRetries = 0
  /\ initDelay = 0
  /\ frames = <<>>
  /\ attempts = 0
  /\ netCalls = 0
  /\ waits = <<>>
  /\ last = NoAnswer
  /\ result = NoResult

Init ==
  /\ rev \in Revisions
  /\ ServiceIdle
  /\ StripIdle
  /\ AppIdle
  /\ KeyIdle

\* retries - 1
NextRetries(r) == r - 1
\* variant: linear instead of exponential backoff
NextDelayLinear(d) == d + DefaultDelay

\* delay * 2
NextDelay(d) == d * 2

\* variant: the recursive call is not returned, the outer frames yield undefined
ReturnDropped(fs, v) == IF fs = <<>> THEN v ELSE NoValue

\* `return generateContentWithRetry(...)`: a value returned by the innermost
\* frame is returned by every frame suspended on it
ReturnThrough(fs, v) == v

\* variant: an outer frame throws the error it caught itself
ThrowOutermost(fs, e) == IF fs = <<>> THEN e ELSE fs[1]

\* `throw error` / a rejection passing through `return generateContentWithRetry(...)`:
\* the error thrown by the innermost frame leaves the outermost frame
ThrowThrough(fs, e) == e

\* catch (error) { console.error(...); throw error; } of the two clients
Rethrow(e) == e

\* variant: the catch block reports the key as valid
ValidatorResultAlwaysTrue(ok) == TRUE

\* what validateApiKey returns after its remote call
ValidatorResult(ok) == ok

\* first call of the wrapper: model.generateContent(params) is issued
EnterWrapper(o, key, m, d) ==
  /\ op' = o
  /\ apiKey' = key
  /\ retries' = m
  /\ delay' = d
  /\ maxRetries' = m
  /\ initDelay' = d
  /\ frames' = <<>>
  /\ attempts' = 1
  /\ netCalls' = 1
  /\ waits' = <<>>
  /\ last' = NoAnswer
  /\ result' = NoResult
  /\ pc' = "call"

\* an operation that ends without any remote call
EndLocally(o, key, r) ==
  /\ op' = o
  /\ apiKey' = key
  /\ retries' = 0
  /\ delay' = 0
  /\ maxRetries' = 0
  /\ initDelay' = 0
  /\ frames' = <<>>
  /\ attempts' = 0
  /\ netCalls' = 0
  /\ waits' = <<>>
  /\ last' = NoAnswer
  /\ result' = r
  /\ pc' = "idle"

\* a direct call generateContentWithRetry(model, params, m, d)
generateContentWithRetry(m, d) ==
  /\ pc = "idle"
  /\ EnterWrapper("generateContentWithRetry", <<>>, m, d)
  /\ UNCHANGED <<rev, otherVars>>

\* generateQuestion(apiKey, selectedTopics) up to its first suspension
generateQuestion(key) ==
  /\ pc = "idle"
  /\ IF CredentialError(rev, "generateQuestion", key) # NoError
     THEN EndLocally("generateQuestion", key,
                     Throw(CredentialError(rev, "generateQuestion", key)))
     ELSE EnterWrapper("generateQuestion", key, DefaultRetries, DefaultDelay)
  /\ UNCHANGED <<rev, otherVars>>

\* evaluateAnswer(apiKey, question, userAnswer) up to its first suspension
evaluateAnswer(key) ==
  /\ pc = "idle"
  /\ IF CredentialError(rev, "evaluateAnswer", key) # NoError
     THEN EndLocally("evaluateAnswer", key,
                     Throw(CredentialError(rev, "evaluateAnswer", key)))
     ELSE EnterWrapper("evaluateAnswer", key, DefaultRetries, DefaultDelay)
  /\ UNCHANGED <<rev, otherVars>>

\* validateApiKey(apiKey) up to its first suspension
validateApiKey(key) ==
  /\ pc = "idle"
  /\ IF ValidatorAccepts(rev, key)
     THEN /\ op' = "validateApiKey"
          /\ apiKey' = key
          /\ netCalls' = 1
          /\ pc' = "call"
          /\ result' = NoResult
          /\ last' = NoAnswer
          /\ retries' = 0 /\ delay' = 0 /\ maxRetries' = 0 /\ initDelay' = 0
          /\ frames' = <<>> /\ attempts' = 0 /\ waits' = <<>>
     ELSE EndLocally("validateApiKey", key, Return(Boolean(FALSE)))
  /\ UNCHANGED <<rev, otherVars>>

\* the remote call of validateApiKey resolves
ValidateCallSucceeds ==
  /\ pc = "call" /\ op = "validateApiKey"
  /\ \E text \in Texts(op) :
       /\ last' = Answered(text)
       /\ result' = Return(Boolean(ValidatorResult(TRUE)))
  /\ pc' = "idle"
  /\ UNCHANGED <<otherVars, rev, op, apiKey, retries, delay, maxRetries, initDelay,
                 frames, attempts, netCalls, waits>>

\* the remote call of validateApiKey rejects: catch { return false }
ValidateCallFails ==
  /\ pc = "call" /\ op = "validateApiKey"
  /\ \E e \in RemoteErrors :
       /\ last' = Failed(Raised(e, netCalls))
       /\ result' = Return(Boolean(ValidatorResult(FALSE)))
  /\ pc' = "idle"
  /\ UNCHANGED <<otherVars, rev, op, apiKey, retries, delay, maxRetries, initDelay,
                 frames, attempts, netCalls, waits>>

\* what the operation makes of the response the wrapper returned
Complete(rv, o, text) ==
  IF o = "generateQuestion" THEN ParseQuestion(rv, text)
  ELSE IF o = "evaluateAnswer" THEN ParseEvaluation(rv, text)
  ELSE Return(Response(text))

\* what leaves the operation when the wrapper threw e
Surface(o, e) ==
  IF o = "generateContentWithRetry" THEN Throw(e) ELSE Throw(Rethrow(e))

\* model.generateContent resolves inside the wrapper
AttemptSucceeds ==
  /\ pc = "call" /\ op \in WrapperOps
  /\ \E text \in Texts(op) :
       /\ last' = Answered(text)
       /\ result' = LET r == ReturnThrough(frames, Response(text))
                    IN IF r.t = "response"
                       THEN Complete(rev, op, r.text)
                       ELSE IF op = "generateContentWithRetry"
                            THEN Return(r) ELSE Throw(TypeError)
  /\ pc' = "idle"
  /\ UNCHANGED <<otherVars, rev, op, apiKey, retries, delay, maxRetries, initDelay,
                 frames, attempts, netCalls, waits>>

\* model.generateContent rejects and the catch block takes the retry branch:
\* the frame suspends on wait(delay)
AttemptFailsRetry ==
  /\ pc = "call" /\ op \in WrapperOps
  /\ \E e \in RemoteErrors :
       /\ ShouldRetry(retries, Raised(e, attempts))
       /\ last' = Failed(Raised(e, attempts))
       /\ frames' = Append(frames, Raised(e, attempts))
  /\ waits' = Append(waits, delay)
  /\ pc' = "wait"
  /\ UNCHANGED <<otherVars, rev, op, apiKey, retries, delay, maxRetries, initDelay,
                 attempts, netCalls, result>>

\* model.generateContent rejects and the catch block rethrows
AttemptFailsThrow ==
  /\ pc = "call" /\ op \in WrapperOps
  /\ \E e \in RemoteErrors :
       /\ ~ShouldRetry(retries, Raised(e, attempts))
       /\ last' = Failed(Raised(e, attempts))
       /\ result' = Surface(op, ThrowThrough(frames, Raised(e, attempts)))
  /\ pc' = "idle"
  /\ UNCHANGED <<otherVars, rev, op, apiKey, retries, delay, maxRetries, initDelay,
                 frames, attempts, netCalls, waits>>

\* wait(delay) resolves: the recursive call issues the next attempt
WaitElapses ==
  /\ pc = "wait"
  /\ retries' = NextRetries(retries)
  /\ delay' = NextDelay(delay)
  /\ attempts' = attempts + 1
  /\ netCalls' = netCalls + 1
  /\ pc' = "call"
  /\ UNCHANGED <<otherVars, rev, op, apiKey, maxRetries, initDelay, frames, waits,
                 last, result>>

Next ==
  \/ \E m \in 0..MaxRetries, d \in Delays : generateContentWithRetry(m, d)
  \/ \E key \in Keys : generateQuestion(key)
  \/ \E key \in Keys : evaluateAnswer(key)
  \/ \E key \in Keys : validateApiKey(key)
  \/ ValidateCallSucceeds
  \/ ValidateCallFails
  \/ AttemptSucceeds
  \/ AttemptFailsRetry
  \/ AttemptFailsThrow
  \/ WaitElapses

Spec == Init /\ [][Next]_vars

(***************************************************************************)
(* stripComments as a function: a snippet is drawn from the bounded        *)
(* strings over SnippetChars and stripped, then its output is stripped     *)
(* again.                                                                  *)
(***************************************************************************)
\* longest snippet
MaxSnippetLen == 8
\* applications of stripComments to one snippet
StripPasses == 2

\* longest snippet that holds white space other than a blank and LF
MaxWideSnippetLen == 6

SnippetChars == {"/", "*", "\n", " ", "a"}
\* with a white-space character that is no line terminator and a line
\* terminator that is not in [\r\n]
WideSnippetChars == SnippetChars \cup {"\f", "u2028"}

Snippets ==
  UNION {[1..n -> SnippetChars] : n \in 0..MaxSnippetLen}
  \cup UNION {[1..n -> WideSnippetChars] : n \in 0..MaxWideSnippetLen}

InitStrip ==
  /\ rev = "early"
  /\ ServiceIdle
  /\ snippet \in Snippets
  /\ passes = <<>>
  /\ AppIdle
  /\ KeyIdle

\* stripComments(code), code being the snippet or the previous output
StripPass ==
  /\ Len(passes) < StripPasses
  /\ passes' = Append(passes,
                 stripComments(IF passes = <<>> THEN snippet
                               ELSE passes[Len(passes)]))
  /\ UNCHANGED <<serviceVars, snippet, appVars, keyVars>>

NextStrip == StripPass

SpecStrip == InitStrip /\ [][NextStrip]_vars

(***************************************************************************)
(* The App component (src/App.tsx): practice flow and mistake store.       *)
(* Every render creates new handler closures over the state of that        *)
(* render.  A user event runs the handler of the latest render; the        *)
(* continuation of an async handler runs in the closure of the render in   *)
(* which the handler was invoked.                                          *)
(***************************************************************************)
\* longest mistake collection
MaxMistakes == 2
\* largest value of Date.now()
MaxClock == 2
\* generateQuestion calls that may be in flight together
MaxInFlight == 2
\* files that may be being read together
MaxReads == 1

Digits == <<"0", "1", "2", "3", "4", "5", "6", "7", "8", "9">>

\* Number.prototype.toString for a non-negative integer
RECURSIVE NumberToString(_)
NumberToString(n) ==
  IF n < 10 THEN <<Digits[n + 1]>>
  ELSE NumberToString(n \div 10) \o <<Digits[(n % 10) + 1]>>

\* !userAnswer.trim()
TrimIsEmpty(a) == \A i \in 1..Len(a) : a[i] \in WhiteSpace

\* texts the user types into the answer field: white space only, and an
\* answer
Answers == {<<" ", "\f">>, <<"4", "2">>}

\* { ...question, id: Date.now().toString(), userWrongAnswer: answer,
\*   feedback: feedback, timestamp: Date.now() }
\* tId and tStamp are the two readings of Date.now(), in this order
NewMistake(question, answer, feedback, tId, tStamp) ==
  LET own == {"id", "userWrongAnswer", "feedback", "timestamp"}
      spread == IF question.t = "object" THEN DOMAIN question.o ELSE {}
  IN [f \in spread \cup own |->
        IF f = "id" THEN NumberToString(tId)
        ELSE IF f = "userWrongAnswer" THEN answer
        ELSE IF f = "feedback" THEN feedback
        ELSE IF f = "timestamp" THEN tStamp
        ELSE question.o[f]]

\* JSON.stringify followed by JSON.parse of one record: a property whose
\* value is undefined is not written
StringifyRecord(m) ==
  IF "feedback" \in DOMAIN m /\ m.feedback = Undefined
  THEN Restrict(m, DOMAIN m \ {"feedback"})
  ELSE m

\* JSON.stringify(collection): the array that the text encodes
Stringify(ms) == [i \in 1..Len(ms) |-> StringifyRecord(ms[i])]

\* the collection that the mount effect loads from an item
Loaded(item) == IF item.present THEN item.v ELSE <<>>

\* m.id, undefined when the record has no id
IdOf(m) == IF "id" \in DOMAIN m THEN JsonString(m.id) ELSE Undefined

\* variant: only the first record that carries the id is dropped
RECURSIVE FilterOutFirst(_, _)
FilterOutFirst(ms, id) ==
  IF ms = <<>> THEN <<>>
  ELSE IF IdOf(Head(ms)) # id
       THEN <<Head(ms)>> \o FilterOutFirst(Tail(ms), id)
       ELSE Tail(ms)

\* mistakes.filter(m => m.id !== id)
RECURSIVE FilterOut(_, _)
FilterOut(ms, id) ==
  IF ms = <<>> THEN <<>>
  ELSE IF IdOf(Head(ms)) # id
       THEN <<Head(ms)>> \o FilterOut(Tail(ms), id)
       ELSE FilterOut(Tail(ms), id)

\* saveMistake: `updated` as computed in a closure whose `mistakes` is ms
SavedCollection(ms, question, answer, feedback, tId, tStamp) ==
  <<NewMistake(question, answer, feedback, tId, tStamp)>> \o ms

\* the collection saveMistake extends: the `mistakes` of the closure in
\* which handleSubmit was invoked
ClosureMistakes(call, current) == call.mistakes

\* result.isCorrect is truthy
IsCorrectTruthy(v) == HasField(v, "isCorrect") /\ v.o.isCorrect = TRUE

\* result.feedback
FeedbackOf(v) ==
  IF HasField(v, "feedback") THEN JsonString(v.o.feedback) ELSE Undefined

SubKeyNotValid == <<"A", "P", "I", " ", "k", "e", "y", " ", "n", "o", "t", " ", "v", "a", "l", "i", "d">>
Sub400 == <<"4", "0", "0">>

\* the message fetchNewQuestion sets for a caught error
FetchErrorMessage(e) ==
  IF MessageIncludes(e, Sub429) \/ MessageIncludes(e, SubExhausted)
  THEN "generate: rate limit"
  ELSE IF MessageIncludes(e, SubKeyNotValid) \/ MessageIncludes(e, Sub400)
       THEN "generate: invalid key"
       ELSE "generate: failed"

\* variant: a message is set for a rate limit only
SubmitErrorMessageRateLimitOnly(e) ==
  IF MessageIncludes(e, Sub429) \/ MessageIncludes(e, SubExhausted)
  THEN "evaluate: rate limit"
  ELSE NoMessage

\* the message handleSubmit sets for a caught error
SubmitErrorMessage(e) ==
  IF MessageIncludes(e, Sub429) \/ MessageIncludes(e, SubExhausted)
  THEN "evaluate: rate limit"
  ELSE "evaluate: failed"

\* the failure with which a service call of the App ends: the quota is
\* exhausted on every attempt
AppRemoteErrors ==
  { Raised(MkError("rateLimit", 0, TRUE, Msg429), DefaultRetries + 1) }

\* outcomes of generateQuestion(apiKey, selectedTopics) in the App
QuestionOutcomes ==
  {ParseQuestion("early", TextJson(JsonObject(FullQuestion(CodePlain))))}
  \cup {Throw(e) : e \in AppRemoteErrors}

\* outcomes of evaluateAnswer(apiKey, currentQuestion, userAnswer) in the
\* App: a complete evaluation, one without feedback, one without isCorrect,
\* and a failure
EvaluationOutcomes ==
  {ParseEvaluation("early", t) :
     t \in {TextJson(JsonObject(FullEvaluation(TRUE))),
            TextJson(JsonObject(FullEvaluation(FALSE))),
            TextJson(JsonObject(Restrict(FullEvaluation(FALSE),
                                         EvaluationFields \ {"feedback"}))),
            TextJson(JsonObject(Restrict(FullEvaluation(TRUE),
                                         EvaluationFields \ {"isCorrect"})))}}
  \cup {Throw(e) : e \in AppRemoteErrors}

\* a record as an exported file holds it
FileRecord(t) ==
  NewMistake(JsonObject(FullQuestion(CodePlain)), <<"4", "2">>, JsonString("F"), t, t)

\* files the user selects for import: an empty file, text that is not JSON,
\* a JSON string, a JSON object, and arrays of records (in order, out of
\* order, with a repeated id)
ImportFiles ==
  { [k |-> "empty", t |-> "none", a |-> <<>>],
    [k |-> "garbage", t |-> "none", a |-> <<>>],
    [k |-> "json", t |-> "string", a |-> <<>>],
    [k |-> "json", t |-> "object", a |-> <<>>],
    [k |-> "json", t |-> "array", a |-> <<>>],
    [k |-> "json", t |-> "array", a |-> <<FileRecord(2), FileRecord(1)>>],
    [k |-> "json", t |-> "array", a |-> <<FileRecord(1), FileRecord(2)>>],
    [k |-> "json", t |-> "array", a |-> <<FileRecord(1), FileRecord(1)>>] }

\* the files the user can select: the samples and the file of the last export
SelectableFiles ==
  ImportFiles \cup (IF exported.present THEN {exported.v.file} ELSE {})

\* the file an export wrote: JSON.stringify(mistakes, null, 2)
ExportFile(ms) == [k |-> "json", t |-> "array", a |-> Stringify(ms)]

\* variant: the import appends the prior collection to the imported one
ImportedCollectionMerged(file, ms) == file.a \o ms

\* setMistakes(parsed): the collection after the import of an array file
ImportedCollection(file, ms) == file.a

\* variant: every file that parses as JSON passes
FileIsArrayAnyJson(file) == file.k = "json"

\* Array.isArray(JSON.parse(text)) for a file whose text is not empty
FileIsArray(file) == file.k = "json" /\ file.t = "array"

\* an id no record of the model carries
AbsentId == JsonString(<<"0">>)

\* ids the review screen offers for removal
ShownIds == {IdOf(mistakes[i]) : i \in 1..Len(mistakes)}

\* what renderPractice shows; the screen of the mode is rendered next to the
\* settings modal, and its controls stay active while the modal is open
PracticeShown == mode = "PRACTICE"
FormShown ==
  /\ PracticeShown /\ ~isLoading /\ error = NoMessage
  /\ currentQuestion # Null /\ evaluation = Null
ResultShown ==
  /\ PracticeShown /\ ~isLoading /\ error = NoMessage
  /\ currentQuestion # Null /\ evaluation # Null
ErrorShown == PracticeShown /\ ~isLoading /\ error # NoMessage

InitApp ==
  /\ rev = "early"
  /\ ServiceIdle
  /\ StripIdle
  /\ AppIdle
  /\ KeyIdle

\* the state changes of fetchNewQuestion up to its await
StartFetch ==
  /\ fetching < MaxInFlight
  /\ isLoading' = TRUE
  /\ error' = NoMessage
  /\ evaluation' = Null
  /\ userAnswer' = <<>>
  /\ currentQuestion' = Null
  /\ fetching' = fetching + 1

\* onClick of the start button of the menu
handleStartPractice ==
  /\ mode = "MENU"
  /\ IF KeyIsEmpty(apiKeyField)
     THEN /\ showSettings' = TRUE
          /\ UNCHANGED <<mode, isLoading, error, evaluation, userAnswer,
                         currentQuestion, fetching>>
     ELSE /\ mode' = "PRACTICE"
          /\ StartFetch
          /\ UNCHANGED showSettings
  /\ lastStoreOp' = NoStoreOp
  /\ UNCHANGED <<serviceVars, stripVars, keyVars, mistakes, stored,
                 isEvaluating, evalCall, exported, reads, now>>

\* onClick of the retry button and of the next-question button
fetchNewQuestion ==
  /\ ErrorShown \/ ResultShown
  /\ IF KeyIsEmpty(apiKeyField)
     THEN /\ error' = "generate: no key"
          /\ UNCHANGED <<isLoading, evaluation, userAnswer, currentQuestion,
                         fetching>>
     ELSE StartFetch
  /\ lastStoreOp' = NoStoreOp
  /\ UNCHANGED <<serviceVars, stripVars, keyVars, mode, showSettings, mistakes, stored,
                 isEvaluating, evalCall, exported, reads, now>>

\* a generateQuestion call settles with one of the outcomes outs: the rest
\* of fetchNewQuestion
FetchSettlesWith(outs) ==
  /\ fetching > 0
  /\ \E out \in outs :
       /\ IF out.kind = "return"
          THEN currentQuestion' = out.value /\ error' = error
          ELSE error' = FetchErrorMessage(out.error)
               /\ currentQuestion' = currentQuestion
       /\ lastStoreOp' = FetchOp(out)
  /\ isLoading' = FALSE
  /\ fetching' = fetching - 1
  /\ UNCHANGED <<serviceVars, stripVars, keyVars, mode, showSettings, mistakes, stored,
                 userAnswer, evaluation, isEvaluating, evalCall, exported, reads, now>>

FetchSettles == FetchSettlesWith(QuestionOutcomes)

\* onChange of the answer field
setUserAnswer(a) ==
  /\ FormShown /\ ~isEvaluating
  /\ a # userAnswer
  /\ userAnswer' = a
  /\ lastStoreOp' = NoStoreOp
  /\ UNCHANGED <<serviceVars, stripVars, keyVars, mode, showSettings, mistakes, stored,
                 currentQuestion, evaluation, isLoading, isEvaluating, error,
                 fetching, evalCall, exported, reads, now>>

\* onClick of the submit button: handleSubmit up to its await, or to its
\* end when evaluateAnswer fails without a remote call
handleSubmit ==
  /\ FormShown /\ ~isEvaluating /\ ~TrimIsEmpty(userAnswer)
  /\ Len(mistakes) < MaxMistakes
  /\ IF KeyIsEmpty(apiKeyField)
     THEN \* evaluateAnswer throws before any remote call: the catch and
          \* the finally of handleSubmit run at once
          /\ error' = SubmitErrorMessage(MissingCredential)
          /\ lastStoreOp' = SubmitOpOf(Throw(MissingCredential),
                                      currentQuestion, userAnswer)
          /\ UNCHANGED <<isEvaluating, evalCall>>
     ELSE /\ isEvaluating' = TRUE
          /\ evalCall' = [active |-> TRUE, question |-> currentQuestion,
                          answer |-> userAnswer, mistakes |-> mistakes]
          /\ lastStoreOp' = NoStoreOp
          /\ UNCHANGED error
  /\ UNCHANGED <<serviceVars, stripVars, keyVars, mode, showSettings, mistakes, stored,
                 currentQuestion, userAnswer, evaluation, isLoading,
                 fetching, exported, reads, now>>

\* the evaluateAnswer call settles: the rest of handleSubmit, saveMistake
\* included
EvaluationSettlesWith(outs) ==
  /\ evalCall.active
  /\ \E out \in outs, tId \in now..MaxClock :
     \E tStamp \in tId..MaxClock :
       /\ IF out.kind = "throw"
          THEN /\ error' = SubmitErrorMessage(out.error)
               /\ UNCHANGED <<evaluation, mistakes, stored, now>>
               /\ lastStoreOp' = SubmitOp(out)
          ELSE IF out.value.t = "null"
          THEN /\ evaluation' = Null
               /\ error' = SubmitErrorMessage(TypeError)
               /\ UNCHANGED <<mistakes, stored, now>>
               /\ lastStoreOp' = SubmitOp(out)
          ELSE /\ evaluation' = out.value
               /\ error' = error
               /\ IF IsCorrectTruthy(out.value)
                  THEN /\ UNCHANGED <<mistakes, stored, now>>
                       /\ lastStoreOp' = SubmitOp(out)
                  ELSE LET updated ==
                             SavedCollection(ClosureMistakes(evalCall, mistakes),
                                             evalCall.question, evalCall.answer,
                                             FeedbackOf(out.value), tId, tStamp)
                       IN /\ mistakes' = updated
                          /\ stored' = Item(Stringify(updated))
                          /\ now' = tStamp
                          /\ lastStoreOp' = SubmitOp(out)
  /\ isEvaluating' = FALSE
  /\ evalCall' = NoCall
  /\ UNCHANGED <<serviceVars, stripVars, keyVars, mode, showSettings, currentQuestion,
                 userAnswer, isLoading, fetching, exported, reads>>

EvaluationSettles == EvaluationSettlesWith(EvaluationOutcomes)

\* removeMistake(id)
removeMistake(id) ==
  /\ mode = "REVIEW"
  /\ LET updated == FilterOut(mistakes, id)
     IN /\ mistakes' = updated
        /\ stored' = Item(Stringify(updated))
  /\ lastStoreOp' = StoreOp("remove", id)
  /\ UNCHANGED <<serviceVars, stripVars, keyVars, mode, showSettings, currentQuestion,
                 userAnswer, evaluation, isLoading, isEvaluating, error,
                 fetching, evalCall, exported, reads, now>>

\* handleExportData
handleExportData ==
  /\ showSettings
  /\ exported' = Item([file |-> ExportFile(mistakes), source |-> mistakes])
  /\ lastStoreOp' = NoStoreOp
  /\ UNCHANGED <<serviceVars, stripVars, keyVars, mode, showSettings, mistakes, stored,
                 currentQuestion, userAnswer, evaluation, isLoading,
                 isEvaluating, error, fetching, evalCall, reads, now>>

\* the sequence q without its i-th element
RemoveAt(q, i) == [j \in 1..(Len(q) - 1) |-> IF j < i THEN q[j] ELSE q[j + 1]]

\* onChange of the import input: handleImportData, which hands the file to
\* a FileReader and returns
handleImportData(file) ==
  /\ showSettings
  /\ Len(reads) < MaxReads
  /\ reads' = Append(reads, file)
  /\ lastStoreOp' = NoStoreOp
  /\ UNCHANGED <<serviceVars, stripVars, keyVars, mode, showSettings, mistakes,
                 stored, currentQuestion, userAnswer, evaluation, isLoading,
                 isEvaluating, error, fetching, evalCall, exported, now>>

\* fileReader.onload of a file that has been read
onload(i) ==
  /\ i \in 1..Len(reads)
  /\ LET file == reads[i]
     IN /\ IF file.k # "empty" /\ FileIsArray(file)
           THEN /\ mistakes' = ImportedCollection(file, mistakes)
                /\ stored' = Item(Stringify(ImportedCollection(file, mistakes)))
           ELSE UNCHANGED <<mistakes, stored>>
        /\ lastStoreOp' = StoreOp("import", file)
  /\ reads' = RemoveAt(reads, i)
  /\ UNCHANGED <<serviceVars, stripVars, keyVars, mode, showSettings, currentQuestion,
                 userAnswer, evaluation, isLoading, isEvaluating, error,
                 fetching, evalCall, exported, now>>

\* handleApiKeyChange
handleApiKeyChange(key) ==
  /\ showSettings
  /\ key # apiKeyField
  /\ apiKeyField' = key
  /\ isKeyValid' = "null"
  /\ lastStoreOp' = NoStoreOp
  /\ UNCHANGED <<serviceVars, stripVars, mode, showSettings, mistakes, stored,
                 currentQuestion, userAnswer, evaluation, isLoading,
                 isEvaluating, error, fetching, evalCall, exported, reads, now,
                 isCheckingKey, keyCall, storedKey, validatedKey>>

\* onClick of the settings buttons of the menu and of the review screen
OpenSettings ==
  /\ mode \in {"MENU", "REVIEW"}
  /\ showSettings' = TRUE
  /\ lastStoreOp' = NoStoreOp
  /\ UNCHANGED <<serviceVars, stripVars, keyVars, mode, mistakes, stored,
                 currentQuestion, userAnswer, evaluation, isLoading,
                 isEvaluating, error, fetching, evalCall, exported, reads, now>>

\* onClick of the close button of the settings modal
CloseSettings ==
  /\ showSettings /\ ~KeyIsEmpty(apiKeyField)
  /\ showSettings' = FALSE
  /\ lastStoreOp' = NoStoreOp
  /\ UNCHANGED <<serviceVars, stripVars, keyVars, mode, mistakes, stored,
                 currentQuestion, userAnswer, evaluation, isLoading,
                 isEvaluating, error, fetching, evalCall, exported, reads, now>>

\* handleSaveSettings
handleSaveSettings ==
  /\ showSettings /\ ~KeyIsEmpty(apiKeyField)
  /\ storedKey' = apiKeyField
  /\ showSettings' = FALSE
  /\ currentQuestion' = Null
  /\ userAnswer' = <<>>
  /\ evaluation' = Null
  /\ lastStoreOp' = NoStoreOp
  /\ UNCHANGED <<apiKeyField, isKeyValid, isCheckingKey, keyCall, validatedKey>>
  /\ UNCHANGED <<serviceVars, stripVars, mode, mistakes, stored, isLoading,
                 isEvaluating, error, fetching, evalCall, exported, reads, now>>

\* setMode(AppMode.MENU) / setMode(AppMode.REVIEW)
setMode(target) ==
  /\ \/ target = "MENU" /\ mode \in {"PRACTICE", "REVIEW"}
     \/ target = "REVIEW" /\ mode = "MENU"
  /\ mode' = target
  /\ lastStoreOp' = NoStoreOp
  /\ UNCHANGED <<serviceVars, stripVars, keyVars, showSettings, mistakes, stored,
                 currentQuestion, userAnswer, evaluation, isLoading,
                 isEvaluating, error, fetching, evalCall, exported, reads, now>>

\* the credential field during practice: cleared, or the saved credential
PracticeKeys == {<<>>, SavedKey}

\* practice, review, import and the editing of the credential; the export
\* is part of SpecExport
NextApp ==
  \/ handleStartPractice
  \/ fetchNewQuestion
  \/ FetchSettles
  \/ \E a \in Answers : setUserAnswer(a)
  \/ handleSubmit
  \/ EvaluationSettles
  \/ \E id \in ShownIds \cup {AbsentId} : removeMistake(id)
  \/ \E file \in SelectableFiles : handleImportData(file)
  \/ \E i \in 1..MaxReads : onload(i)
  \/ OpenSettings
  \/ CloseSettings
  \/ handleSaveSettings
  \/ \E key \in PracticeKeys : handleApiKeyChange(key)
  \/ \E target \in {"MENU", "REVIEW"} : setMode(target)

SpecApp == InitApp /\ [][NextApp]_vars

(***************************************************************************)
(* The mistake store on its own: the menu, the review screen and the       *)
(* settings modal of a session in which no evaluation is pending.          *)
(* SpecStore has the removal and the import of every sample file,          *)
(* SpecExport the export and the import of the exported file.              *)
(***************************************************************************)
\* the readings of Date.now() of n saves, two for each save, oldest first
ClockReadings(n) ==
  {r \in [1..(2 * n) -> 1..MaxClock] :
     \A i \in 1..(2 * n - 1) : r[i] <= r[i + 1]}

\* collections that saves have built, newest first: the feedback of a
\* record is a string, or undefined when the evaluation came without one
SavedCollections ==
  UNION { { [i \in 1..n |->
               NewMistake(JsonObject(FullQuestion(CodePlain)), <<"4", "2">>,
                          fb[i], r[2 * (n - i) + 1], r[2 * (n - i) + 2])] :
            r \in ClockReadings(n),
            fb \in [1..n -> {JsonString("F"), Undefined}] }
          : n \in 0..MaxMistakes }

InitStore ==
  /\ rev = "early"
  /\ ServiceIdle
  /\ StripIdle
  /\ mode = "MENU" /\ showSettings = FALSE
  /\ mistakes \in SavedCollections
  /\ stored = IF mistakes = <<>> THEN Absent ELSE Item(Stringify(mistakes))
  /\ now = IF mistakes = <<>> THEN 1 ELSE Head(mistakes).timestamp
  /\ currentQuestion = Null /\ userAnswer = <<>> /\ evaluation = Null
  /\ isLoading = FALSE /\ isEvaluating = FALSE /\ error = NoMessage
  /\ fetching = 0 /\ evalCall = NoCall
  /\ exported = Absent
  /\ reads = <<>>
  /\ lastStoreOp = NoStoreOp
  /\ KeyIdle

NextStore ==
  \/ \E id \in ShownIds \cup {AbsentId} : removeMistake(id)
  \/ \E file \in SelectableFiles : handleImportData(file)
  \/ \E i \in 1..MaxReads : onload(i)
  \/ OpenSettings
  \/ CloseSettings
  \/ handleSaveSettings
  \/ \E target \in {"MENU", "REVIEW"} : setMode(target)

SpecStore == InitStore /\ [][NextStore]_vars

\* the files selected for import next to the exported one: a JSON object
\* and an array of two records
ExportSessionFiles ==
  {file \in ImportFiles :
     file.t = "object" \/ file.a = <<FileRecord(2), FileRecord(1)>>}
  \cup (IF exported.present THEN {exported.v.file} ELSE {})

NextExport ==
  \/ handleExportData
  \/ \E file \in ExportSessionFiles : handleImportData(file)
  \/ \E i \in 1..MaxReads : onload(i)
  \/ OpenSettings
  \/ CloseSettings

SpecExport == InitStore /\ [][NextExport]_vars

(***************************************************************************)
(* The credential of the settings modal: editing and testing it.           *)
(***************************************************************************)
\* texts the user types into the credential field
AppKeys == {<<>>, SavedKey, <<"k", "e", "y">>}

\* isKeyValid for a boolean
KeyStatus(valid) == IF valid THEN "true" ELSE "false"

\* what validateApiKey(key) of the imported service can return: false
\* without a remote call, else whether the remote call succeeded
ValidationOutcomes(key) ==
  {ValidatorResult(ok) :
     ok \in IF ValidatorAccepts("early", key) THEN BOOLEAN ELSE {FALSE}}

\* the mount effect: the saved credential is loaded, and the settings modal
\* opens when there is none
InitKey ==
  /\ rev = "early"
  /\ ServiceIdle
  /\ StripIdle
  /\ storedKey \in {<<>>, SavedKey}
  /\ apiKeyField = storedKey
  /\ showSettings = KeyIsEmpty(storedKey)
  /\ isKeyValid = "null" /\ isCheckingKey = FALSE /\ keyCall = NoKeyCall
  /\ validatedKey = Absent
  /\ mode = "MENU" /\ mistakes = <<>> /\ stored = Absent
  /\ currentQuestion = Null /\ userAnswer = <<>> /\ evaluation = Null
  /\ isLoading = FALSE /\ isEvaluating = FALSE /\ error = NoMessage
  /\ fetching = 0 /\ evalCall = NoCall /\ exported = Absent /\ reads = <<>> /\ now = 1
  /\ lastStoreOp = NoStoreOp

\* onClick of the test button: handleTestKey up to its await
handleTestKey ==
  /\ showSettings /\ ~isCheckingKey /\ ~KeyIsEmpty(apiKeyField)
  /\ isCheckingKey' = TRUE
  /\ keyCall' = [active |-> TRUE, key |-> apiKeyField]
  /\ UNCHANGED <<serviceVars, stripVars, appVars, apiKeyField, isKeyValid,
                 storedKey, validatedKey>>

\* the validateApiKey call settles: the rest of handleTestKey
ValidationSettles ==
  /\ keyCall.active
  /\ \E valid \in ValidationOutcomes(keyCall.key) :
       /\ isKeyValid' = KeyStatus(valid)
       /\ IF valid
          THEN storedKey' = keyCall.key /\ validatedKey' = Item(keyCall.key)
          ELSE UNCHANGED <<storedKey, validatedKey>>
  /\ isCheckingKey' = FALSE
  /\ keyCall' = NoKeyCall
  /\ UNCHANGED <<serviceVars, stripVars, appVars, apiKeyField>>

NextKey ==
  \/ \E key \in AppKeys : handleApiKeyChange(key)
  \/ handleTestKey
  \/ ValidationSettles
  \/ OpenSettings
  \/ CloseSettings
  \/ handleSaveSettings

SpecKey == InitKey /\ [][NextKey]_vars

(***************************************************************************)
(* The practice flow on its own: two different questions, a terminal and   *)
(* an exhausted transient failure, answers that are not JSON, and the      *)
(* navigation between the screens, with the settings modal open or not    *)
(* and with the credential field cleared or filled.                        *)
(***************************************************************************)
\* failures with which a service call ends: a transient error on every
\* attempt, and a terminal error on the first
PracticeRemoteErrors ==
  { Raised(MkError("rateLimit", 0, TRUE, Msg429), DefaultRetries + 1),
    Raised(MkError("auth", 400, TRUE, MsgKeyNotValid), 1) }

PracticeQuestionOutcomes ==
  {ParseQuestion("early", TextJson(JsonObject(FullQuestion(c)))) :
     c \in {CodePlain, CodeBlockComment}}
  \cup {ParseQuestion("early", TextNotJson(<<"e", "r", "r", "o", "r", " ", "4", "0", "0">>))}
  \cup {Throw(e) : e \in PracticeRemoteErrors}

PracticeEvaluationOutcomes ==
  {ParseEvaluation("early", TextJson(JsonObject(FullEvaluation(b)))) :
     b \in BOOLEAN}
  \cup {ParseEvaluation("early", TextNotJson(<<"x", "4", "2", "9">>))}
  \cup {Throw(e) : e \in PracticeRemoteErrors}

NextPractice ==
  \/ handleStartPractice
  \/ fetchNewQuestion
  \/ FetchSettlesWith(PracticeQuestionOutcomes)
  \/ setUserAnswer(<<"4", "2">>)
  \/ handleSubmit
  \/ EvaluationSettlesWith(PracticeEvaluationOutcomes)
  \/ setMode("MENU")
  \/ OpenSettings
  \/ CloseSettings
  \/ handleSaveSettings
  \/ \E key \in PracticeKeys : handleApiKeyChange(key)

SpecPractice == InitApp /\ [][NextPractice]_vars

(***************************************************************************)
(* Properties.                                                             *)
(***************************************************************************)
RECURSIVE SumSeq(_)
SumSeq(q) == IF q = <<>> THEN 0 ELSE Head(q) + SumSeq(Tail(q))

\* the code classifies e as retry-eligible
ClassifiedTransient(e) == isRateLimit(e) \/ isServerOverload(e)

\* every failure the suspended frames caught is a rate-limit or overload signal
AllFramesTransient == \A i \in 1..Len(frames) : IsTransientCause(frames[i])

\* the most recent remote call failed
LastFailed == last.error # NoError

\* C1: one invocation of generateContentWithRetry makes at most
\* maxRetries+1 attempts of model.generateContent, whatever the outcomes.
AtMostMaxRetriesPlusOneAttempts ==
  op \in WrapperOps => attempts <= maxRetries + 1

\* C1 witness: a direct call with maxRetries >= 1 has used all its attempts
ReachedAllAttempts ==
  /\ op = "generateContentWithRetry" /\ pc = "idle"
  /\ maxRetries >= 1 /\ attempts = maxRetries + 1
  /\ result.kind = "throw"

\* C2: when every attempt fails with a transient error, the wrapper makes
\* exactly maxRetries+1 attempts and then throws the error of the last
\* attempt.
AlwaysTransientThrowsLastError ==
  (op \in WrapperOps /\ pc = "idle" /\ LastFailed
     /\ IsTransientCause(last.error) /\ AllFramesTransient)
  => /\ result.kind = "throw"
     /\ attempts = maxRetries + 1
     /\ result.error = last.error
     /\ result.error.n = attempts

\* C2 witness: four transient failures, the first and the last of different
\* shape, and the call has ended
ExhaustedWithDistinctErrors ==
  /\ op = "generateContentWithRetry" /\ pc = "idle"
  /\ maxRetries = DefaultRetries /\ attempts = maxRetries + 1
  /\ LastFailed /\ IsTransientCause(last.error) /\ AllFramesTransient
  /\ frames[1].status # last.error.status
  /\ result.kind = "throw"

\* C3: after k <= maxRetries transient failures followed by a success the
\* wrapper returns that response after exactly k+1 attempts and raises no
\* error; no transient failure among the first maxRetries ends the call.
SuccessAfterTransientFailuresReturned ==
  (op = "generateContentWithRetry" /\ pc = "idle" /\ AllFramesTransient)
  => /\ last.ok => /\ result = Return(Response(last.text))
                   /\ attempts = Len(frames) + 1
                   /\ Len(frames) <= maxRetries
     /\ (LastFailed /\ IsTransientCause(last.error)) => Len(frames) = maxRetries

\* C3 witness: maxRetries transient failures, then the success is returned
ReturnedAfterMaxRetriesFailures ==
  /\ op = "generateContentWithRetry" /\ pc = "idle"
  /\ maxRetries = DefaultRetries /\ Len(frames) = maxRetries
  /\ AllFramesTransient /\ last.ok
  /\ last.text.k = "json"
  /\ result.kind = "return"

\* C4: a failure the wrapper classifies as terminal ends the call at once:
\* no further attempt, no backoff wait, and the caller receives that same
\* error; a terminal error on the first attempt means exactly one attempt.
TerminalErrorEndsCall ==
  (op \in WrapperOps /\ LastFailed /\ ~ClassifiedTransient(last.error))
  => /\ pc = "idle"
     /\ result = Throw(last.error)
     /\ attempts = last.error.n
     /\ Len(waits) = attempts - 1
     /\ frames = <<>> => attempts = 1

\* C4 witness: a terminal error on the first attempt with retries remaining
TerminalOnFirstAttempt ==
  /\ op \in WrapperOps /\ pc = "idle"
  /\ LastFailed /\ ~ClassifiedTransient(last.error)
  /\ maxRetries = DefaultRetries /\ attempts = 1 /\ waits = <<>>
  /\ result.kind = "throw"

\* C5: the wrapper retries a failure only when it is a rate-limit (429 /
\* resource exhausted) or an overload (503) signal; an authentication,
\* malformed-request or network failure is never retried, whatever its
\* message contains.
OnlyTransientCausesRetried ==
  op \in WrapperOps => \A i \in 1..Len(frames) : IsTransientCause(frames[i])

\* C6: the wait before the i-th retry is initDelay * 2^(i-1), the total is
\* initDelay * (2^n - 1); with the defaults an always-failing call sleeps
\* 2000, 4000, 8000 ms, 14000 ms in total.
BackoffDoubles ==
  op \in WrapperOps
  => /\ \A i \in 1..Len(waits) : waits[i] = initDelay * 2^(i - 1)
     /\ SumSeq(waits) = initDelay * (2^Len(waits) - 1)
     /\ (maxRetries = 3 /\ initDelay = 2000 /\ attempts = 4)
        => /\ waits = <<2000, 4000, 8000>>
           /\ SumSeq(waits) = 14000

\* C6 witness: the default call has failed transiently four times
DefaultBackoffExhausted ==
  /\ op = "generateQuestion" /\ pc = "idle"
  /\ maxRetries = DefaultRetries /\ initDelay = DefaultDelay
  /\ Len(waits) = 3 /\ LastFailed /\ result.kind = "throw"

\* C7: for a credential that passes the local checks validateApiKey makes
\* exactly one remote call, never waits or retries, returns true iff that
\* call succeeded and returns false (never throws) on any error.
ValidatorOneCallNoRetry ==
  (op = "validateApiKey" /\ ValidatorAccepts(rev, apiKey))
  => /\ netCalls = 1
     /\ pc # "wait"
     /\ waits = <<>>
     /\ pc = "idle" => result = Return(Boolean(last.ok))

\* C7 witness: the validation call failed with a 429 and false was returned
ValidatorFalseOnRateLimit ==
  /\ op = "validateApiKey" /\ pc = "idle"
  /\ LastFailed /\ last.error.status = StatusRateLimit
  /\ netCalls = 1
  /\ result = Return(Boolean(FALSE))

\* C8 (as stated): for an empty and for a malformed credential
\* validateApiKey returns false without any network call.
ValidatorRejectsMalformedLocally ==
  (op = "validateApiKey" /\ (KeyIsEmpty(apiKey) \/ ~isValidApiKeyFormat(apiKey)))
  => /\ netCalls = 0
     /\ result = Return(Boolean(FALSE))

\* C8 (amended): for an empty credential, and in the revision with the
\* format check for a malformed credential, validateApiKey returns false
\* without any network call.
ValidatorFailsClosed ==
  (op = "validateApiKey"
     /\ (KeyIsEmpty(apiKey) \/ (rev = "strict" /\ ~isValidApiKeyFormat(apiKey))))
  => /\ netCalls = 0
     /\ pc = "idle"
     /\ result = Return(Boolean(FALSE))

\* C8 witness: the strict revision rejected a non-empty malformed credential
StrictValidatorRejectedMalformed ==
  /\ rev = "strict" /\ op = "validateApiKey" /\ pc = "idle"
  /\ ~KeyIsEmpty(apiKey) /\ ~isValidApiKeyFormat(apiKey)
  /\ netCalls = 0
  /\ result = Return(Boolean(FALSE))

\* C9: generateQuestion and evaluateAnswer with an empty credential throw
\* the missing-credential error before any remote call; in the stricter
\* revision generateQuestion with a non-empty credential that fails the
\* pattern throws the invalid-format error before any remote call.
CredentialCheckedBeforeRemoteCall ==
  /\ (op \in {"generateQuestion", "evaluateAnswer"} /\ KeyIsEmpty(apiKey))
     => /\ pc = "idle" /\ netCalls = 0
        /\ result = Throw(MissingCredential)
  /\ (rev = "strict" /\ op = "generateQuestion"
        /\ ~KeyIsEmpty(apiKey) /\ ~isValidApiKeyFormat(apiKey))
     => /\ pc = "idle" /\ netCalls = 0
        /\ result = Throw(InvalidCredentialFormat)

\* C9 witness: evaluateAnswer was called with an empty credential
EvaluateRejectedEmptyCredential ==
  /\ op = "evaluateAnswer" /\ pc = "idle" /\ KeyIsEmpty(apiKey)
  /\ netCalls = 0
  /\ result.kind = "throw" /\ result.error.cause = "MissingCredential"

\* C10: generateQuestion and evaluateAnswer never return a value in which
\* a required field of the schema is missing: an empty or malformed
\* response makes them fail.
NeverReturnsPartialObject ==
  /\ (op = "generateQuestion" /\ pc = "idle" /\ result.kind = "return")
     => /\ result.value.t = "object"
        /\ QuestionFields \subseteq DOMAIN result.value.o
  /\ (op = "evaluateAnswer" /\ pc = "idle" /\ result.kind = "return")
     => /\ result.value.t = "object"
        /\ EvaluationFields \subseteq DOMAIN result.value.o

(***************************************************************************)
(* Properties of stripComments.                                            *)
(***************************************************************************)
\* a line of the text s begins at i ("\r\n" is one line break)
TextLineStart(s, i) ==
  /\ i <= Len(s)
  /\ \/ i = 1
     \/ s[i - 1] = "\n"
     \/ s[i - 1] = "\r" /\ s[i] # "\n"

\* first position >= i holding a line break, or Len(s)+1
TextLineEnd(s, i) ==
  LET T == {k \in i..Len(s) : s[k] \in LineBreaks}
  IN IF T = {} THEN Len(s) + 1 ELSE SetMin(T)

\* the line that begins at i is empty or holds white space only
BlankLineAt(s, i) ==
  /\ TextLineStart(s, i)
  /\ \A k \in i..(TextLineEnd(s, i) - 1) : s[k] \in WhiteSpace

HasBlankLine(s) == \E i \in 1..Len(s) : BlankLineAt(s, i)

\* s holds a line comment, or a block comment that is closed
HasLineComment(s) == \E i \in 1..Len(s) : At2(s, i, "/", "/")
HasBlockComment(s) ==
  \E i \in 1..Len(s) : At2(s, i, "/", "*") /\ BlockClosers(s, i) # {}

\* C11: stripComments is idempotent: stripping the output of stripComments
\* again yields the same text.
StripCommentsIdempotent ==
  Len(passes) = StripPasses => passes[2] = passes[1]

\* C12: the code field of the Question that generateQuestion returns holds
\* no line comment and no complete block comment, whatever the model sent.
ReturnedCodeHasNoComment ==
  (op = "generateQuestion" /\ pc = "idle" /\ result.kind = "return"
     /\ HasField(result.value, "code"))
  => /\ ~HasLineComment(result.value.o.code)
     /\ ~HasBlockComment(result.value.o.code)

\* C23: stripComments leaves no blank-line artifact: for a snippet that has
\* no blank line of its own, the output has no empty or whitespace-only
\* line.
StripLeavesNoBlankLine ==
  (Len(passes) >= 1 /\ ~HasBlankLine(snippet)) => ~HasBlankLine(passes[1])

(***************************************************************************)
(* Properties of the mistake store.                                        *)
(***************************************************************************)
\* Number(id) for an id made of decimal digits
RECURSIVE IdNumber(_)
IdNumber(id) ==
  IF id = <<>> THEN 0
  ELSE 10 * IdNumber(SubSeq(id, 1, Len(id) - 1))
       + (CHOOSE d \in 0..9 : Digits[d + 1] = id[Len(id)])

\* what reading the property f of the record m yields
FieldRead(m, f) ==
  IF f \notin DOMAIN m THEN [has |-> FALSE]
  ELSE IF f = "feedback" /\ m[f].t = "undefined" THEN [has |-> FALSE]
  ELSE [has |-> TRUE, v |-> m[f]]

\* two records agree on every property read
SameRecord(a, b) ==
  \A f \in DOMAIN a \cup DOMAIN b : FieldRead(a, f) = FieldRead(b, f)

\* same records, same order
SameCollection(x, y) ==
  /\ Len(x) = Len(y)
  /\ \A i \in 1..Len(x) : SameRecord(x[i], y[i])

\* the evaluation returned isCorrect = false
ReturnedIncorrect(out) ==
  /\ out.kind = "return"
  /\ HasField(out.value, "isCorrect")
  /\ out.value.o.isCorrect = FALSE

\* the last step settled an evaluation and called saveMistake
AddActed ==
  /\ lastStoreOp.op = "submit"
  /\ lastStoreOp.outcome.kind = "return"
  /\ lastStoreOp.outcome.value.t = "object"
  /\ ~(HasField(lastStoreOp.outcome.value, "isCorrect")
        /\ lastStoreOp.outcome.value.o.isCorrect = TRUE)

\* C13: the ids of the persisted collection are pairwise distinct and, the
\* collection being ordered newest first, never increase along it.
PersistedIdsDistinctAndOrdered ==
  LET ms == Loaded(stored)
  IN \A i \in 1..Len(ms) : \A j \in (i + 1)..Len(ms) :
       /\ ms[i].id # ms[j].id
       /\ IdNumber(ms[i].id) >= IdNumber(ms[j].id)

\* C14: an add followed by the removal of the id of the new record, no other
\* record carrying that id, returns the in-memory and the persisted
\* collection to what they were before the add.
AddThenRemoveRestores ==
  [][(/\ AddActed
      /\ lastStoreOp'.op = "remove"
      /\ lastStoreOp'.arg = IdOf(Head(mistakes))
      /\ \A i \in 1..Len(lastStoreOp.before) :
            IdOf(lastStoreOp.before[i]) # IdOf(Head(mistakes)))
     => /\ mistakes' = lastStoreOp.before
        /\ SameCollection(Loaded(stored'), Loaded(lastStoreOp.beforeStored))]_vars

\* C17: an add puts the new record at the head, followed by the records of
\* the prior collection in unchanged order, and persists this collection.
AddPrependsAndPersists ==
  AddActed
  => /\ Len(mistakes) = Len(lastStoreOp.before) + 1
     /\ Head(mistakes).userWrongAnswer = lastStoreOp.answer
     /\ Tail(mistakes) = lastStoreOp.before
     /\ SameCollection(Loaded(stored), mistakes)

\* C19: a record is added exactly when the evaluation returned
\* isCorrect = false, and it carries the submitted question and answer and
\* the returned feedback; otherwise the store is left as it was.
RecordAddedOnlyWhenIncorrect ==
  lastStoreOp.op = "submit"
  => IF ReturnedIncorrect(lastStoreOp.outcome)
     THEN /\ mistakes # <<>>
          /\ Head(mistakes).userWrongAnswer = lastStoreOp.answer
          /\ \A f \in DOMAIN lastStoreOp.question.o :
                Head(mistakes)[f] = lastStoreOp.question.o[f]
          /\ FieldRead(Head(mistakes), "feedback")
               = IF HasField(lastStoreOp.outcome.value, "feedback")
                 THEN [has |-> TRUE,
                       v |-> JsonString(lastStoreOp.outcome.value.o.feedback)]
                 ELSE [has |-> FALSE]
     ELSE /\ mistakes = lastStoreOp.before
          /\ stored = lastStoreOp.beforeStored

\* C20: a save extends the collection as it is at save time: what a remove
\* or an import did while the evaluation was outstanding is kept.
SaveExtendsCollectionAtSaveTime ==
  (lastStoreOp.op = "submit" /\ ReturnedIncorrect(lastStoreOp.outcome))
  => /\ mistakes # <<>>
     /\ SameCollection(Tail(mistakes), lastStoreOp.before)
     /\ SameCollection(Tail(Loaded(stored)), lastStoreOp.before)

\* the file of the last step's import is not a JSON array
ImportedFileIsNoArray(o) ==
  o.op = "import" /\ (o.arg.k # "json" \/ o.arg.t # "array")

\* C15: an import whose file does not decode to a JSON array leaves the
\* in-memory and the persisted collection exactly as they were.
RejectedImportLeavesStore ==
  [][ImportedFileIsNoArray(lastStoreOp')
     => mistakes' = mistakes /\ stored' = stored]_vars

\* C15 witness: a store that holds records went through the import of a
\* JSON object
ObjectImportedIntoFilledStore ==
  /\ lastStoreOp.op = "import"
  /\ lastStoreOp.arg.k = "json" /\ lastStoreOp.arg.t = "object"
  /\ mistakes # <<>>
  /\ stored.present /\ stored.v # <<>>

\* the last step imported the file that the last export wrote
ExportedFileImported(o) ==
  o.op = "import" /\ exported.present /\ o.arg = exported.v.file

\* C16: importing the file that export wrote replaces the in-memory and the
\* persisted collection with a collection equal to the exported one, no
\* record of the previous collection being merged in.
ExportImportRoundTrips ==
  [][ExportedFileImported(lastStoreOp')
     => /\ SameCollection(mistakes', exported.v.source)
        /\ SameCollection(Loaded(stored'), exported.v.source)]_vars

\* C16 witness: a collection of one record whose feedback is undefined was
\* exported, and the last step imported the exported file
SingleRecordRoundTripped ==
  /\ ExportedFileImported(lastStoreOp)
  /\ Len(exported.v.source) = 1
  /\ Len(mistakes) = 1
  /\ FieldRead(mistakes[1], "feedback") = [has |-> FALSE]

\* C18: remove(id) deletes every record whose id equals id, keeps the other
\* records in their order and persists the result; when no record has the
\* id, the collections are unchanged.
RemoveDeletesExactlyTheId ==
  [][lastStoreOp'.op = "remove"
     => LET Kept(m) == IdOf(m) # lastStoreOp'.arg
        IN /\ mistakes' = SelectSeq(mistakes, Kept)
           /\ SameCollection(Loaded(stored'), mistakes')
           /\ (\A i \in 1..Len(mistakes) : Kept(mistakes[i]))
              => /\ mistakes' = mistakes
                 /\ SameCollection(Loaded(stored'), Loaded(stored))]_vars

\* C18 witness: an id that no record carries was removed from a store that
\* holds records
AbsentIdRemovedFromFilledStore ==
  /\ lastStoreOp.op = "remove"
  /\ mistakes # <<>>
  /\ \A i \in 1..Len(mistakes) : IdOf(mistakes[i]) # lastStoreOp.arg
  /\ lastStoreOp.arg = AbsentId

(***************************************************************************)
(* Properties of the credential validation.                                *)
(***************************************************************************)
\* C25: whenever isKeyValid is true, the credential held in the settings
\* field is the credential whose validation call succeeded.
ValidStatusIsOfHeldCredential ==
  isKeyValid = "true"
  => validatedKey.present /\ validatedKey.v = apiKeyField

(***************************************************************************)
(* Properties of the practice flow.                                        *)
(***************************************************************************)
\* remote generation and evaluation calls in flight
CallsInFlight == fetching + (IF evalCall.active THEN 1 ELSE 0)

\* the last step was the failure of a remote call of the given kind
CallFailed(kind) ==
  lastStoreOp.op = kind /\ lastStoreOp.outcome.kind = "throw"

\* C21: at most one remote generation or evaluation call is in flight at
\* any time.
AtMostOneCallInFlight == CallsInFlight <= 1

\* the retry button issues a generateQuestion call
IssueGeneration == fetchNewQuestion /\ fetching' = fetching + 1

\* C22: when a generateQuestion or evaluateAnswer call fails, the busy flag
\* of the action is false again, an error message is set, the mistake
\* collection is unchanged in memory and in storage, and the practice
\* screen offers the retry button unless another question is loading; the
\* retry issues a generateQuestion call whenever a credential is held.
FailureIsScoped ==
  /\ CallFailed("fetch") => isLoading = FALSE
  /\ CallFailed("submit") => isEvaluating = FALSE
  /\ (CallFailed("fetch") \/ CallFailed("submit"))
     => /\ error # NoMessage
        /\ mistakes = lastStoreOp.before
        /\ stored = lastStoreOp.beforeStored
        /\ (PracticeShown /\ ~isLoading)
           => /\ ErrorShown
              /\ ~KeyIsEmpty(apiKeyField) => ENABLED IssueGeneration

\* C22 witness: the credential field was cleared, and the submission of an
\* answer failed in evaluateAnswer while the store held a record
SubmitFailedWithoutCredential ==
  /\ CallFailed("submit")
  /\ lastStoreOp.outcome.error.cause = "MissingCredential"
  /\ KeyIsEmpty(apiKeyField)
  /\ mistakes # <<>>
  /\ stored.present

\* C24: an evaluation result that is set while a question is shown was
\* produced for that question.
ShownEvaluationIsOfCurrentQuestion ==
  (/\ lastStoreOp.op = "submit"
   /\ lastStoreOp.outcome.kind = "return"
   /\ ResultShown)
  => currentQuestion = lastStoreOp.question

====
